---------------------------- MODULE Spec2Model ----------------------------
(***************************************************************************)
(* A model of git-metrics-python: src/git_metrics.py (handle-list mode)    *)
(* and src/git_metrics_detailed.py (organization mode).                    *)
(*                                                                         *)
(* Python values are modelled as follows.                                  *)
(*  - A text value is a TLA+ string; Python's None, where a text value is  *)
(*    expected, is the distinguished string NoneVal, which an f-string     *)
(*    formats as "None" (Fmt).                                             *)
(*  - A decoded JSON leaf is a record [t |-> kind, v |-> integer].         *)
(*  - A decoded JSON container on the path walked by the extractors is     *)
(*    one of NodeKinds: what is found under that key.                      *)
(*  - An output line is the sequence of its comma-joined fields.           *)
(***************************************************************************)
EXTENDS Integers, Sequences, FiniteSets, TLC

VARIABLES
    prog,           \* "handles": git_metrics.py; "org": git_metrics_detailed.py;
                    \* "extract": an extractor alone; "paging": the resolver alone
    argc,           \* len(sys.argv)
    arg6,           \* sys.argv[6] when there is one (NoneVal otherwise)
    input_file,     \* handle-list mode: "ok", "missing" or "unreadable"
    input_rows,     \* handle-list mode: the rows csv.reader yields
    remote,         \* the organization the well-behaved remote serves (paging)
    pc,             \* where the program is
    exit_status,    \* -1 while running, then the process's exit status
    email_domain,   \* main's email_domain
    records,        \* main's records (handle-list mode)
    org_members,    \* main's org_members (organization mode)
    members_dict,   \* get_organization_members_with_saml: insertion-ordered dict
    cursor,         \* get_organization_members_with_saml: cursor (NoCursor: None)
    page,           \* the running listing's page
    members,        \* get_organization_members_basic: members
    used_basic,     \* whether get_organization_members_basic was called
    saml_iterations,  \* iterations of the identity-linked listing's loop
    basic_iterations, \* iterations of the basic listing's loop
    idx,            \* position of main's for loop (1-based, next to process)
    name,           \* main's name of the user processed last
    results_file,   \* the output file: times opened, open or not, the lines
                    \* written to it, how many of them have been flushed
    queries,        \* handles a contribution query was issued for, in order
    served,         \* the remote's answers consumed by the latest step
    log,            \* the diagnostic lines printed by the latest step
    response_data,  \* the decoded payload handed to an extractor
    extracted       \* what the extractor gave back to its caller

inputVars == <<prog, argc, arg6, input_file, input_rows, remote>>
resolverVars == <<members_dict, cursor, page, members, used_basic,
                  saml_iterations, basic_iterations>>
mainVars == <<pc, exit_status, email_domain, records, org_members, idx, name,
              results_file, queries, served, log>>
extractVars == <<response_data, extracted>>
vars == <<inputVars, resolverVars, mainVars, extractVars>>

---------------------------------------------------------------------------
(* Bounds of the model.                                                    *)

\* Counter values of a payload range over 0..MaxCount.
MaxCount == 2

---------------------------------------------------------------------------
(* Python values.                                                          *)

NoneVal == "<None>"

\* f"{value}" of a text value or None.
Fmt(v) == IF v = NoneVal THEN "None" ELSE v

\* Truthiness of a text value or None: None and '' are falsy.
Truthy(v) == v # NoneVal /\ v # ""

\* What a key of a JSON object can hold on the path to the counters.
NodeKinds == {"map", "missing", "null", "list", "str"}

\* A JSON leaf: t is its kind, v the integer it carries.
\*   absent  the key is not there          null   JSON null
\*   int     the integer v                 numstr the string of v's digits
\*   badstr  a string that is no number    float  the finite float v + 0.5
\*   nan     NaN                           inf    Infinity
\*   list    a JSON array                  bool   true (v = 1) or false (v = 0)
Leaf(t, v) == [t |-> t, v |-> v]
Absent == Leaf("absent", 0)
Null == Leaf("null", 0)

\* Python's int(x): the exception it raises ("none" when it returns) and
\* the integer it returns.
PyInt(x) ==
    CASE x.t = "int"    -> [exc |-> "none", v |-> x.v]
      [] x.t = "bool"   -> [exc |-> "none", v |-> x.v]
      [] x.t = "numstr" -> [exc |-> "none", v |-> x.v]
      [] x.t = "float"  -> [exc |-> "none", v |-> x.v]
      [] x.t = "badstr" -> [exc |-> "ValueError", v |-> 0]
      [] x.t = "nan"    -> [exc |-> "ValueError", v |-> 0]
      [] x.t = "inf"    -> [exc |-> "OverflowError", v |-> 0]
      [] OTHER          -> [exc |-> "TypeError", v |-> 0]

\* parent[key]: the exception raised by subscripting a value of kind
\* `parent` with a string key under which `child` is found.
Subscript(parent, child) ==
    IF parent # "map" THEN "TypeError"
    ELSE IF child = "missing" THEN "KeyError"
    ELSE "none"

\* d.get(key, 0) followed by nothing: the leaf, or the integer 0 by default.
GetOrZero(x) == IF x.t = "absent" THEN Leaf("int", 0) ELSE x

\* The first exception of a sequence of evaluation steps, "none" if none.
RECURSIVE FirstExc(_)
FirstExc(s) ==
    IF s = <<>> THEN "none"
    ELSE IF Head(s) # "none" THEN Head(s)
    ELSE FirstExc(Tail(s))

---------------------------------------------------------------------------
(* Response Extractor.                                                     *)

create_empty_contribution_stats ==
    [total |-> 0, commits |-> 0, issues |-> 0, pull_requests |-> 0,
     pull_request_reviews |-> 0, repositories |-> 0, restricted |-> 0]

\* The exceptions an extractor's except clause names.
CaughtByExtract == {"KeyError", "TypeError", "ValueError"}

\* response_data["data"]["user"]["contributionsCollection"]
WalkToCollection(p) ==
    <<Subscript(p.top, p.data), Subscript(p.data, p.user), Subscript(p.user, p.cc)>>

\* ...["contributionCalendar"]["totalContributions"], then int(...)
WalkToTotal(p) ==
    <<Subscript(p.cc, p.cal),
      Subscript(p.cal, IF p.total.t = "absent" THEN "missing" ELSE "map"),
      PyInt(p.total).exc>>

\* The six sibling counters: contributions_collection.get(key, 0).
Siblings(p) ==
    <<GetOrZero(p.commits), GetOrZero(p.issues), GetOrZero(p.pull_requests),
      GetOrZero(p.pull_request_reviews), GetOrZero(p.repositories),
      GetOrZero(p.restricted)>>

\* A slip in StatsOf: the total computed as the sum of the six counters.
StatsMutTotalIsSum(p) ==
    LET c(i) == PyInt(Siblings(p)[i]).v
    IN  [total |-> c(1) + c(2) + c(3) + c(4) + c(5) + c(6),
         commits |-> c(1), issues |-> c(2), pull_requests |-> c(3),
         pull_request_reviews |-> c(4), repositories |-> c(5), restricted |-> c(6)]

\* The dict literal of extract_contribution_details, once nothing raised.
StatsOf(p) ==
    [total |-> PyInt(p.total).v,
     commits |-> PyInt(Siblings(p)[1]).v,
     issues |-> PyInt(Siblings(p)[2]).v,
     pull_requests |-> PyInt(Siblings(p)[3]).v,
     pull_request_reviews |-> PyInt(Siblings(p)[4]).v,
     repositories |-> PyInt(Siblings(p)[5]).v,
     restricted |-> PyInt(Siblings(p)[6]).v]

\* extract_contribution_details: its try block evaluated in source order,
\* then its except clause. raised: the exception that reaches the caller;
\* caught: the one the except clause handled (it prints two lines).
extract_contribution_details(p) ==
    LET e == FirstExc(WalkToCollection(p) \o WalkToTotal(p)
                      \o [i \in 1..6 |-> PyInt(Siblings(p)[i]).exc])
    IN  IF e = "none"
        THEN [raised |-> "none", caught |-> "none", stats |-> StatsOf(p)]
        ELSE IF e \in CaughtByExtract
        THEN [raised |-> "none", caught |-> e, stats |-> create_empty_contribution_stats]
        ELSE [raised |-> e, caught |-> "none", stats |-> create_empty_contribution_stats]

\* The try block of extract_total_contributions (handle-list mode).
extract_total_contributions(p) ==
    LET e == FirstExc(WalkToCollection(p) \o WalkToTotal(p))
    IN  IF e = "none"
        THEN [raised |-> "none", caught |-> "none", stats |-> [total |-> PyInt(p.total).v]]
        ELSE IF e \in CaughtByExtract
        THEN [raised |-> "none", caught |-> e, stats |-> [total |-> 0]]
        ELSE [raised |-> e, caught |-> "none", stats |-> [total |-> 0]]

---------------------------------------------------------------------------
(* Payloads.                                                               *)

\* A payload whose path is cut at some key: everything below is absent.
Payload(top, data, user, cc, cal, total, c1, c2, c3, c4, c5, c6) ==
    [top |-> top, data |-> data, user |-> user, cc |-> cc, cal |-> cal,
     total |-> total, commits |-> c1, issues |-> c2, pull_requests |-> c3,
     pull_request_reviews |-> c4, repositories |-> c5, restricted |-> c6]

Broken == NodeKinds \ {"map"}

\* Every payload whose path is cut above the counters.
CutPayloads ==
    {Payload(k, "missing", "missing", "missing", "missing",
             Absent, Absent, Absent, Absent, Absent, Absent, Absent)
        : k \in {"null", "list", "str"}}
    \cup {Payload("map", k, "missing", "missing", "missing",
             Absent, Absent, Absent, Absent, Absent, Absent, Absent) : k \in Broken}
    \cup {Payload("map", "map", k, "missing", "missing",
             Absent, Absent, Absent, Absent, Absent, Absent, Absent) : k \in Broken}
    \cup {Payload("map", "map", "map", k, "missing",
             Absent, Absent, Absent, Absent, Absent, Absent, Absent) : k \in Broken}

\* The values the total can take, and those each of the six siblings can.
TotalLeaves ==
    {Absent, Null, Leaf("badstr", 0), Leaf("nan", 0), Leaf("inf", 0),
     Leaf("list", 0), Leaf("bool", 1)}
    \cup {Leaf("int", n) : n \in 0..MaxCount}
    \cup {Leaf("numstr", MaxCount), Leaf("float", MaxCount)}

SiblingLeaves == {Absent, Null} \cup {Leaf("int", n) : n \in 1..MaxCount}

\* Every payload whose contributionsCollection is there, whatever it holds.
CollectionPayloads ==
    {Payload("map", "map", "map", "map", k,
             Absent, Absent, Absent, Absent, Absent, Absent, Absent) : k \in Broken}
    \cup {Payload("map", "map", "map", "map", "map", t, c1, c2, c3, c4, c5, c6) :
            t \in TotalLeaves, c1 \in SiblingLeaves, c2 \in SiblingLeaves,
            c3 \in SiblingLeaves, c4 \in SiblingLeaves, c5 \in SiblingLeaves,
            c6 \in SiblingLeaves}

NotExtracted == [fn |-> "none"]

---------------------------------------------------------------------------
(* Text values of the model.                                               *)

\* dict.get's answer for a key that is not there, before its default.
AbsentKey == "<absent>"

\* The handle of the k-th user a listing or an input file names.
HandleOf(k) == "u" \o ToString(k)
DisplayName(h) == "Name " \o h
CompanyId(h) == h \o "@sso.example"
RowEmail(h) == h \o "@mail.example"

\* One printed line: what it says and whom it names ("" when nobody).
L(msg, who) == [msg |-> msg, who |-> who]

---------------------------------------------------------------------------
(* Membership Resolver.                                                    *)

PerPage == 100
NoCursor == -1

\* user.get('name', login) and saml_identity.get('nameId', '').
MemberOfEdge(e) ==
    [login |-> e.login,
     name |-> IF e.name = AbsentKey THEN e.login ELSE e.name,
     saml_name_id |-> IF e.nameId = AbsentKey THEN "" ELSE e.nameId]

\* for edge in edges: if user: members_dict[login] = {...}, on an
\* insertion-ordered dict, in closed form: a login the dict holds keeps its
\* place and takes the values of the last edge that names it; the other
\* logins follow in the order of their first edge, each with the values of
\* its last edge.
PutEdges(d, edges) ==
    LET es == SelectSeq(edges, LAMBDA e : e.user)
        n == Len(es)
        Last(login) == CHOOSE j \in 1..n :
                         /\ es[j].login = login
                         /\ \A k \in (j + 1)..n : es[k].login # login
        Named(login) == \E j \in 1..n : es[j].login = login
        Held(login) == \E i \in 1..Len(d) : d[i].login = login
        firsts == SelectSeq([j \in 1..n |-> j],
                            LAMBDA j : /\ ~Held(es[j].login)
                                       /\ \A k \in 1..(j - 1) :
                                            es[k].login # es[j].login)
    IN  [i \in 1..Len(d) |->
            IF Named(d[i].login) THEN MemberOfEdge(es[Last(d[i].login)]) ELSE d[i]]
        \o [k \in 1..Len(firsts) |-> MemberOfEdge(es[Last(es[firsts[k]].login)])]

\* One iteration of get_organization_members_with_saml's while loop on the
\* answer r. next: "continue" (another iteration), "fallback" (return
\* get_organization_members_basic(...)) or "return" (break, then return
\* list(members_dict.values())).
SamlIteration(md, cur, pg, r) ==
    LET stop(lines) == [next |-> "return", members_dict |-> md, cursor |-> cur,
                        page |-> pg, log |-> lines]
        fall(lines) == [next |-> "fallback", members_dict |-> md, cursor |-> cur,
                        page |-> pg, log |-> lines]
        md2 == PutEdges(md, r.edges)
    IN  IF r.kind = "transport"
        THEN stop(<<L("Error making request to GitHub API", "")>>)
        ELSE IF r.status = 401
        THEN stop(<<L("Authentication failed", "")>>)
        ELSE IF r.status # 200
        THEN stop(<<L("Error fetching SAML identities", "")>>)
        ELSE IF r.errors # "none"
        THEN fall(<<L("GraphQL errors", "")>>
                  \o IF r.errors = "saml"
                     THEN <<L("SAML SSO may not be configured", "")>> ELSE <<>>)
        ELSE IF r.provider # "map"
        THEN fall(<<L("No SAML identity provider found", "")>>)
        ELSE IF r.edges = <<>> /\ pg = 1
        THEN fall(<<L("No SAML identities found", "")>>)
        ELSE IF r.hasNextPage
        THEN [next |-> "continue", members_dict |-> md2, cursor |-> r.endCursor,
              page |-> pg + 1, log |-> <<L("Fetching page", "")>>]
        ELSE [next |-> "return", members_dict |-> md2, cursor |-> cur,
              page |-> pg, log |-> <<>>]

\* for member in data: member['saml_name_id'] = ''; members.append(member)
AppendBasic(ms, data) ==
    ms \o [i \in 1..Len(data) |->
             [login |-> data[i].login, name |-> data[i].name, saml_name_id |-> ""]]

\* A slip in NextPage: the page number is not advanced.
NextPageMutSamePage(pg) == pg

\* page += 1
NextPage(pg) == pg + 1

\* One iteration of get_organization_members_basic's while loop.
BasicIteration(ms, pg, r) ==
    LET stop(lines) == [next |-> "return", members |-> ms, page |-> pg, log |-> lines]
    IN  IF r.kind = "transport"
        THEN stop(<<L("Error making request to GitHub API", "")>>)
        ELSE IF r.status = 404
        THEN stop(<<L("Organization not found", "")>>)
        ELSE IF r.status = 401
        THEN stop(<<L("Authentication failed", "")>>)
        ELSE IF r.status # 200
        THEN stop(<<L("Error fetching members", "")>>)
        ELSE IF r.data = <<>>
        THEN stop(<<>>)
        ELSE [next |-> "continue", members |-> AppendBasic(ms, r.data),
              page |-> NextPage(pg), log |-> <<L("Fetched page", "")>>]

---------------------------------------------------------------------------
(* Contribution Query Client and user details.                             *)

\* get_user_contribution_from_github on the remote's answer r: whether it
\* returns None, and what it prints.
get_user_contribution_from_github(r) ==
    IF r.fetch = "transport"
    THEN [none |-> TRUE, log |-> <<L("Error making request to GitHub API", "")>>]
    ELSE IF r.fetch = "undecodable"
    THEN [none |-> TRUE, log |-> <<L("Error parsing JSON response", "")>>]
    ELSE [none |-> FALSE, log |-> <<>>]

\* get_user_details on the remote's answer d: None or the decoded dict.
get_user_details(username, d) ==
    IF d.kind = "transport"
    THEN [none |-> TRUE, log |-> <<L("Error fetching user details", username)>>]
    ELSE IF d.status # 200
    THEN [none |-> TRUE, log |-> <<L("Warning: Could not fetch details", username)>>]
    ELSE [none |-> FALSE, log |-> <<>>]

---------------------------------------------------------------------------
(* Report Writer.                                                          *)

HeaderDetailed ==
    <<"Name", "GitHandle", "Email", "TotalContributions", "CommitContributions",
      "IssueContributions", "PullRequestContributions",
      "PullRequestReviewContributions", "RepositoryContributions",
      "RestrictedContributions">>

HeaderHandles == <<"Name", "GitHandle", "Email", "TotalContributions">>

\* A slip in RowDetailed: the commit and issue counters change places.
RowDetailedMutSwapped(nm, git_handle, email, stats) ==
    <<Fmt(nm), Fmt(git_handle), Fmt(email), ToString(stats.total),
      ToString(stats.issues), ToString(stats.commits),
      ToString(stats.pull_requests), ToString(stats.pull_request_reviews),
      ToString(stats.repositories), ToString(stats.restricted)>>

\* The line write_to_file builds in git_metrics_detailed.py.
RowDetailed(nm, git_handle, email, stats) ==
    <<Fmt(nm), Fmt(git_handle), Fmt(email), ToString(stats.total),
      ToString(stats.commits), ToString(stats.issues),
      ToString(stats.pull_requests), ToString(stats.pull_request_reviews),
      ToString(stats.repositories), ToString(stats.restricted)>>

\* The line write_to_file builds in git_metrics.py.
RowHandles(nm, git_handle, email, total_contributions) ==
    <<nm, git_handle, email, ToString(total_contributions)>>

\* open(path, 'w') followed by the header's write: the file is truncated and
\* the header stays in the file object's buffer (nothing flushes it here).
OpenWithHeader(f, header) ==
    [opens |-> f.opens + 1, open |-> TRUE, lines |-> <<header>>, flushed |-> 0]

\* A slip in write_to_file: the row is written and not flushed.
write_to_fileMutNoFlush(f, row) == [f EXCEPT !.lines = Append(@, row)]

\* write_to_file: file_handle.write(result_row); file_handle.flush(), which
\* hands on everything the buffer holds.
write_to_file(f, row) ==
    [f EXCEPT !.lines = Append(@, row), !.flushed = Len(f.lines) + 1]

\* The write_to_file calls of one iteration, in order.
RECURSIVE WriteRows(_, _)
WriteRows(f, rows) ==
    IF rows = <<>> THEN f
    ELSE WriteRows(write_to_file(f, Head(rows)), Tail(rows))

\* Leaving the with block: the file is closed, which flushes the buffer.
CloseFile(f) == [f EXCEPT !.open = FALSE, !.flushed = Len(f.lines)]

---------------------------------------------------------------------------
(* Orchestrator: what one user's iteration does.                           *)

\* print_contribution_summary
print_contribution_summary(username, stats) ==
    <<L("Contribution Summary for", username), L("the seven counters", "")>>
    \o IF stats = create_empty_contribution_stats
       THEN <<L("WARNING: All contributions are zero for", username),
              L("This might indicate", "")>>
       ELSE <<>>

\* Lines 62-68 of git_metrics_detailed.py: the member's name, looking the
\* user up when the listing gave none. d is the remote's answer to the
\* lookup, consumed only when the lookup is made.
NeedsLookup(member) == ~(member.name # AbsentKey /\ Truthy(member.name))

ResolveName(member, d) ==
    IF ~NeedsLookup(member) THEN member.name
    ELSE IF get_user_details(member.login, d).none THEN member.login
    ELSE IF d.name = AbsentKey THEN member.login
    ELSE d.name

\* A slip in ResolveEmail: the domain is tried before the linked identity.
ResolveEmailMutDomainFirst(member, domain) ==
    IF Truthy(domain) THEN member.login \o "@" \o domain
    ELSE IF Truthy(member.saml_name_id) THEN member.saml_name_id
    ELSE ""

\* Lines 70-77 of git_metrics_detailed.py.
ResolveEmail(member, domain) ==
    IF Truthy(member.saml_name_id) THEN member.saml_name_id
    ELSE IF Truthy(domain) THEN member.login \o "@" \o domain
    ELSE ""

\* Python's truth value of the decoded body, and `key in body`.
BodyTruthy(r) == r.body # "falsy"
InRaises(r) == r.body = "scalar"

\* The else branch (no usable payload) and the except branch of main's
\* try: what is written and printed. zero is the user's all-zero row.
\* A slip in ElseBranch: the user is passed over without a row.
ElseBranchMutNoRow(zero, git_handle) ==
    [rows |-> <<>>, log |-> <<L("Warning: No data received for user", git_handle)>>]

ElseBranch(zero, git_handle) ==
    [rows |-> <<zero>>, log |-> <<L("Warning: No data received for user", git_handle)>>]

\* A slip in ExceptBranch: the error is reported and no row is written.
ExceptBranchMutNoRow(zero, git_handle) ==
    [rows |-> <<>>, log |-> <<L("Error getting user contribution for", git_handle)>>]

ExceptBranch(zero, git_handle) ==
    [rows |-> <<zero>>, log |-> <<L("Error getting user contribution for", git_handle)>>]

\* done, with `lines` printed before it.
After(lines, done) == [rows |-> done.rows, log |-> lines \o done.log]
Then(done, lines) == [rows |-> done.rows, log |-> done.log \o lines]

\* Lines 82-105 of git_metrics_detailed.py on the remote's answer r: the
\* lines written to the file and the lines printed.
ContributionsOrg(nm, git_handle, email, r) ==
    LET got == get_user_contribution_from_github(r)
        zero == RowDetailed(nm, git_handle, email, create_empty_contribution_stats)
        ex == extract_contribution_details(r.payload)
    IN  IF got.none \/ ~BodyTruthy(r)
        THEN After(got.log, ElseBranch(zero, git_handle))
        ELSE IF InRaises(r)
        THEN ExceptBranch(zero, git_handle)
        ELSE IF ~r.hasData
        THEN Then(ElseBranch(zero, git_handle),
                  IF r.hasErrors THEN <<L("API Errors", "")>> ELSE <<>>)
        ELSE LET errs == IF r.hasErrors
                         THEN <<L("GitHub API errors for", git_handle)>> ELSE <<>>
             IN  IF ex.raised # "none"
                 THEN After(errs, ExceptBranch(zero, git_handle))
                 ELSE [rows |-> <<RowDetailed(nm, git_handle, email, ex.stats)>>,
                       log |-> errs
                               \o (IF ex.caught # "none"
                                   THEN <<L("Error extracting contribution details", ""),
                                          L("Response data structure", "")>>
                                   ELSE <<>>)
                               \o print_contribution_summary(git_handle, ex.stats)]

\* Lines 55-70 of git_metrics.py on the remote's answer r.
ContributionsHandles(nm, git_handle, email, r) ==
    LET got == get_user_contribution_from_github(r)
        zero == RowHandles(nm, git_handle, email, 0)
        ex == extract_total_contributions(r.payload)
    IN  IF got.none \/ ~BodyTruthy(r)
        THEN After(got.log, ElseBranch(zero, git_handle))
        ELSE IF InRaises(r)
        THEN ExceptBranch(zero, git_handle)
        ELSE IF ~r.hasData
        THEN ElseBranch(zero, git_handle)
        ELSE IF ex.raised # "none"
        THEN ExceptBranch(zero, git_handle)
        ELSE [rows |-> <<RowHandles(nm, git_handle, email, ex.stats.total)>>,
              log |-> (IF ex.caught # "none"
                       THEN <<L("Error extracting total contributions", "")>>
                       ELSE <<>>)
                      \o <<L("Total Contributions by", email)>>]

---------------------------------------------------------------------------
(* The remote's answers and the program's inputs.                          *)

\* At most MaxRows rows in the input file, at most MaxMembers entries in the
\* listings of a run, at most MaxPages pages of the identity-linked listing,
\* at most MaxOrgSize members in the organization the paging remote serves.
MaxRows == 2
MaxMembers == 2
MaxPages == 2
MaxOrgSize == 201

MinColumns == 8

\* The k-th row of an input file: how many columns it has; row[0], row[1]
\* and row[7] when it has them.
RowsAt(k) ==
    {[ncols |-> n, handle |-> HandleOf(k), name |-> DisplayName(HandleOf(k)),
      email |-> RowEmail(HandleOf(k))] :
        n \in {0, MinColumns - 1, MinColumns, MinColumns + 1}}

RECURSIVE RowSeqs(_)
RowSeqs(n) ==
    IF n = 0 THEN {<<>>}
    ELSE {Append(rs, r) : rs \in RowSeqs(n - 1), r \in RowsAt(n)}

\* The k-th entry of the identity-linked listing, and of the basic listing.
EdgesAt(k) ==
    {[user |-> TRUE, login |-> HandleOf(k), name |-> n, nameId |-> i] :
        n \in {AbsentKey, NoneVal, DisplayName(HandleOf(k))},
        i \in {AbsentKey, CompanyId(HandleOf(k))}}

RECURSIVE EdgeSeqs(_, _)
EdgeSeqs(from, n) ==
    IF n = 0 THEN {<<>>}
    ELSE {Append(es, e) : es \in EdgeSeqs(from, n - 1), e \in EdgesAt(from + n)}

RestAt(k) ==
    {[login |-> HandleOf(k), name |-> n] :
        n \in {AbsentKey, NoneVal, DisplayName(HandleOf(k))}}

RECURSIVE RestSeqs(_, _)
RestSeqs(from, n) ==
    IF n = 0 THEN {<<>>}
    ELSE {Append(ms, m) : ms \in RestSeqs(from, n - 1), m \in RestAt(from + n)}

\* An answer to the identity-linked listing's request.
SamlAnswer(kind, status, errors, provider, edges, more, endCursor) ==
    [kind |-> kind, status |-> status, errors |-> errors, provider |-> provider,
     edges |-> edges, hasNextPage |-> more, endCursor |-> endCursor]

SamlFailures ==
    {SamlAnswer("transport", 0, "none", "missing", <<>>, FALSE, NoCursor),
     SamlAnswer("http", 401, "none", "missing", <<>>, FALSE, NoCursor),
     SamlAnswer("http", 500, "none", "missing", <<>>, FALSE, NoCursor),
     SamlAnswer("http", 200, "saml", "missing", <<>>, FALSE, NoCursor),
     SamlAnswer("http", 200, "other", "missing", <<>>, FALSE, NoCursor),
     SamlAnswer("http", 200, "none", "missing", <<>>, FALSE, NoCursor),
     SamlAnswer("http", 200, "none", "null", <<>>, FALSE, NoCursor)}

\* A page that names again the user the previous page ended with (the
\* listing moved between two requests), with whatever values it has now.
EdgesAgain ==
    IF members_dict = <<>> THEN {}
    ELSE {<<e>> : e \in EdgesAt(Len(members_dict))}

\* Any answer of a remote that names users it has not named yet, or the last
\* one again; an 'errors' list can come with data (a partial answer).
SamlAnswers ==
    IF pc # "saml" THEN {}
    ELSE SamlFailures \cup
    {SamlAnswer("http", 200, e, "map", es, more, Len(members_dict) + Len(es)) :
        e \in {"none", "other"},
        es \in EdgesAgain \cup UNION {EdgeSeqs(Len(members_dict), n) :
                                        n \in 0..(MaxMembers - Len(members_dict))},
        more \in IF page < MaxPages THEN BOOLEAN ELSE {FALSE}}

\* An answer to the basic listing's request.
BasicAnswer(kind, status, data) == [kind |-> kind, status |-> status, data |-> data]

\* A page that lists again the entry the previous page ended with.
RestAgain ==
    IF members = <<>> \/ Len(members) >= MaxMembers THEN {}
    ELSE {<<[login |-> members[Len(members)].login,
             name |-> members[Len(members)].name]>>}

BasicAnswers ==
    IF pc # "basic" THEN {}
    ELSE
    {BasicAnswer("transport", 0, <<>>), BasicAnswer("http", 404, <<>>),
     BasicAnswer("http", 401, <<>>), BasicAnswer("http", 500, <<>>)}
    \cup {BasicAnswer("http", 200, ms) :
            ms \in RestAgain \cup UNION {RestSeqs(Len(members), n) :
                                           n \in 0..(MaxMembers - Len(members))}}

\* An answer to the user-details request.
Details(kind, status, nm) == [kind |-> kind, status |-> status, name |-> nm]
NoDetails == Details("none", 0, AbsentKey)

DetailsAnswers(h) ==
    {Details("transport", 0, AbsentKey), Details("http", 404, AbsentKey)}
    \cup {Details("http", 200, n) : n \in {AbsentKey, NoneVal, "", DisplayName(h)}}

\* The answers member i's iteration can consume for its user-details lookup.
DetailsFor(i) ==
    IF i \notin 1..Len(org_members) THEN {}
    ELSE IF NeedsLookup(org_members[i])
    THEN DetailsAnswers(org_members[i].login)
    ELSE {NoDetails}

\* An answer to the contribution query: how the fetch ended, the kind of the
\* decoded body, whether 'data' and 'errors' are in it, and the payload.
Contrib(fetch, body, hasData, hasErrors, payload) ==
    [fetch |-> fetch, body |-> body, hasData |-> hasData, hasErrors |-> hasErrors,
     payload |-> payload]

NoPayload ==
    Payload("null", "missing", "missing", "missing", "missing",
            Absent, Absent, Absent, Absent, Absent, Absent, Absent)
NoDataPayload ==
    Payload("map", "missing", "missing", "missing", "missing",
            Absent, Absent, Absent, Absent, Absent, Absent, Absent)
ListPayload ==
    Payload("list", "missing", "missing", "missing", "missing",
            Absent, Absent, Absent, Absent, Absent, Absent, Absent)
\* {"data": {"user": null}}: what the remote answers for an unknown login.
UserNullPayload ==
    Payload("map", "map", "null", "missing", "missing",
            Absent, Absent, Absent, Absent, Absent, Absent, Absent)
GoodPayload ==
    Payload("map", "map", "map", "map", "map", Leaf("int", MaxCount),
            Leaf("int", 1), Absent, Absent, Absent, Absent, Absent)
\* Every counter is there, each with a value of its own.
FullPayload ==
    Payload("map", "map", "map", "map", "map", Leaf("int", MaxCount),
            Leaf("int", 1), Leaf("int", 2), Leaf("int", 3), Leaf("int", 4),
            Leaf("int", 5), Leaf("int", 6))
InfPayload ==
    Payload("map", "map", "map", "map", "map", Leaf("inf", 0),
            Absent, Absent, Absent, Absent, Absent, Absent)

NoContrib == Contrib("none", "falsy", FALSE, FALSE, NoPayload)

ContribAnswers ==
    {Contrib("transport", "falsy", FALSE, FALSE, NoPayload),
     Contrib("undecodable", "falsy", FALSE, FALSE, NoPayload),
     Contrib("ok", "falsy", FALSE, FALSE, NoPayload),
     Contrib("ok", "scalar", FALSE, FALSE, NoPayload),
     Contrib("ok", "list", TRUE, FALSE, ListPayload)}
    \cup {Contrib("ok", "map", FALSE, e, NoDataPayload) : e \in BOOLEAN}
    \cup {Contrib("ok", "map", TRUE, FALSE, FullPayload),
          Contrib("ok", "map", TRUE, TRUE, GoodPayload),
          Contrib("ok", "map", TRUE, TRUE, UserNullPayload),
          Contrib("ok", "map", TRUE, FALSE, InfPayload)}

\* What a step consumed.
Served(step, h, lookup, d, r) ==
    [step |-> step, handle |-> h, lookup |-> lookup, details |-> d, contrib |-> r]
Idle == Served("none", "", FALSE, NoDetails, NoContrib)

NoFile == [opens |-> 0, open |-> FALSE, lines |-> <<>>, flushed |-> 0]
NoRemote == [total_members |-> 0, idp |-> "none"]

---------------------------------------------------------------------------
(* main of git_metrics.py (handle-list mode).                              *)

\* len(sys.argv) != 6
WrongArgcHandles(n) == n # 6

\* Lines 16-42: the argument count, the input file, the output file's open
\* and its header.
StartHandles ==
    /\ prog = "handles" /\ pc = "start"
    /\ IF WrongArgcHandles(argc)
       THEN /\ pc' = "exited" /\ exit_status' = 1
            /\ log' = <<L("Usage", "")>>
            /\ UNCHANGED <<records, results_file, idx>>
       ELSE IF input_file # "ok"
       THEN /\ pc' = "exited" /\ exit_status' = 0
            /\ log' = <<L(IF input_file = "missing"
                          THEN "Error: Could not find CSV file"
                          ELSE "Error reading CSV file", "")>>
            /\ UNCHANGED <<records, results_file, idx>>
       ELSE /\ pc' = "loop" /\ exit_status' = exit_status
            /\ records' = input_rows
            /\ results_file' = OpenWithHeader(results_file, HeaderHandles)
            /\ idx' = 1
            /\ log' = <<>>
    /\ UNCHANGED <<inputVars, resolverVars, extractVars, email_domain,
                   org_members, name, queries, served>>

\* Lines 44-47: a row with too few columns.
SkipRow ==
    /\ prog = "handles" /\ pc = "loop" /\ idx <= Len(records)
    /\ records[idx].ncols < MinColumns
    /\ idx' = idx + 1
    /\ log' = <<L("Warning: Skipping row with insufficient columns", "")>>
    /\ served' = Served("skip", "", FALSE, NoDetails, NoContrib)
    /\ UNCHANGED <<inputVars, resolverVars, extractVars, pc, exit_status,
                   email_domain, records, org_members, name, results_file, queries>>

\* Lines 49-70: a row with enough columns, on the remote's answer r.
ProcessRow(r) ==
    /\ prog = "handles" /\ pc = "loop" /\ idx <= Len(records)
    /\ records[idx].ncols >= MinColumns
    /\ LET row == records[idx]
           did == ContributionsHandles(row.name, row.handle, row.email, r)
       IN  /\ name' = row.name
           /\ queries' = Append(queries, row.handle)
           /\ results_file' = WriteRows(results_file, did.rows)
           /\ log' = did.log
           /\ served' = Served("row", row.handle, FALSE, NoDetails, r)
    /\ idx' = idx + 1
    /\ UNCHANGED <<inputVars, resolverVars, extractVars, pc, exit_status,
                   email_domain, records, org_members>>

---------------------------------------------------------------------------
(* main of git_metrics_detailed.py (organization mode).                    *)

\* A slip in WrongArgcOrg: no upper limit on the argument count.
WrongArgcOrgMutNoUpper(n) == n < 6

\* len(sys.argv) < 6 or len(sys.argv) > 7
WrongArgcOrg(n) == n < 6 \/ n > 7

\* Lines 18-34: the argument count, then the call of the resolver.
StartOrg ==
    /\ prog = "org" /\ pc = "start"
    /\ IF WrongArgcOrg(argc)
       THEN /\ pc' = "exited" /\ exit_status' = 1
            /\ log' = <<L("Usage", "")>>
            /\ email_domain' = email_domain
       ELSE /\ pc' = "saml" /\ exit_status' = exit_status
            /\ email_domain' = (IF argc = 7 THEN arg6 ELSE NoneVal)
            /\ log' = <<L("Fetching members from organization", ""),
                        L("Fetching organization members with SAML identities", "")>>
    /\ UNCHANGED <<inputVars, resolverVars, extractVars, records, org_members,
                   idx, name, results_file, queries, served>>

\* One iteration of the identity-linked listing's loop on the answer r. On
\* the fallback the function only hands on what the basic listing returns:
\* its own dict and cursor are not read again.
SamlPage(r) ==
    /\ pc = "saml"
    /\ LET it == SamlIteration(members_dict, cursor, page, r)
       IN  /\ saml_iterations' = saml_iterations + 1
           /\ log' = it.log
           /\ IF it.next = "continue"
              THEN /\ pc' = "saml"
                   /\ members_dict' = it.members_dict
                   /\ cursor' = it.cursor
                   /\ page' = it.page
                   /\ UNCHANGED <<org_members, used_basic>>
              ELSE IF it.next = "fallback"
              THEN /\ pc' = "basic"
                   /\ used_basic' = TRUE
                   /\ page' = 1
                   /\ members_dict' = <<>>
                   /\ cursor' = NoCursor
                   /\ UNCHANGED org_members
              ELSE /\ pc' = "resolved"
                   /\ org_members' = it.members_dict
                   /\ members_dict' = it.members_dict
                   /\ UNCHANGED <<cursor, page, used_basic>>
    /\ UNCHANGED <<inputVars, extractVars, members, basic_iterations, exit_status,
                   email_domain, records, idx, name, results_file, queries, served>>

\* One iteration of the basic listing's loop on the answer r.
BasicPage(r) ==
    /\ pc = "basic"
    /\ LET it == BasicIteration(members, page, r)
       IN  /\ basic_iterations' = basic_iterations + 1
           /\ log' = it.log
           /\ members' = it.members
           /\ page' = it.page
           /\ IF it.next = "continue"
              THEN /\ pc' = "basic" /\ UNCHANGED org_members
              ELSE /\ pc' = "resolved" /\ org_members' = it.members
    /\ UNCHANGED <<inputVars, extractVars, members_dict, cursor, used_basic,
                   saml_iterations, exit_status, email_domain, records, idx, name,
                   results_file, queries, served>>

\* Lines 36-56: the resolver has returned (its locals are gone); no member
\* ends the process, otherwise the output file is opened and gets its header.
AfterResolve ==
    /\ prog = "org" /\ pc = "resolved"
    /\ members_dict' = <<>> /\ cursor' = NoCursor /\ page' = 1 /\ members' = <<>>
    /\ saml_iterations' = 0 /\ basic_iterations' = 0
    /\ IF org_members = <<>>
       THEN /\ pc' = "exited" /\ exit_status' = 1
            /\ log' = <<L("Error: No members found for organization", "")>>
            /\ UNCHANGED <<results_file, idx>>
       ELSE /\ pc' = "loop" /\ exit_status' = exit_status
            /\ log' = <<L("Found members in organization", "")>>
            /\ results_file' = OpenWithHeader(results_file, HeaderDetailed)
            /\ idx' = 1
    /\ UNCHANGED <<inputVars, extractVars, used_basic, email_domain, records,
                   org_members, name, queries, served>>

\* Lines 58-79: one member's name and email, on the remote's answer d to the
\* user-details lookup (made only when the listing gave no name).
ResolveMember(d) ==
    /\ prog = "org" /\ pc = "loop" /\ idx <= Len(org_members)
    /\ LET member == org_members[idx]
           lookup == NeedsLookup(member)
       IN  /\ name' = ResolveName(member, d)
           /\ log' = (IF lookup THEN get_user_details(member.login, d).log
                      ELSE <<>>)
                     \o (IF ~Truthy(member.saml_name_id) /\ Truthy(email_domain)
                         THEN <<L("Generated email for", member.login)>>
                         ELSE <<>>)
                     \o <<L("Processing user", member.login)>>
           /\ served' = Served("name", member.login, lookup, d, NoContrib)
    /\ pc' = "fetch"
    /\ UNCHANGED <<inputVars, resolverVars, extractVars, exit_status, email_domain,
                   records, org_members, idx, results_file, queries>>

\* Lines 81-105: the member's contributions, on the remote's answer r.
FetchMember(r) ==
    /\ prog = "org" /\ pc = "fetch"
    /\ LET member == org_members[idx]
           email == ResolveEmail(member, email_domain)
           did == ContributionsOrg(name, member.login, email, r)
       IN  /\ queries' = Append(queries, member.login)
           /\ results_file' = WriteRows(results_file, did.rows)
           /\ log' = did.log
           /\ served' = Served("member", member.login, FALSE, NoDetails, r)
    /\ idx' = idx + 1
    /\ pc' = "loop"
    /\ UNCHANGED <<inputVars, resolverVars, extractVars, exit_status, email_domain,
                   records, org_members, name>>

\* The for loop is over: the with block is left and main returns.
FinishLoop ==
    /\ prog \in {"handles", "org"} /\ pc = "loop"
    /\ idx > Len(IF prog = "org" THEN org_members ELSE records)
    /\ pc' = "exited" /\ exit_status' = 0
    /\ results_file' = CloseFile(results_file)
    /\ log' = IF prog = "org" THEN <<L("Results written to", "")>> ELSE <<>>
    /\ served' = Idle
    /\ UNCHANGED <<inputVars, resolverVars, extractVars, email_domain, records,
                   org_members, idx, name, queries>>

---------------------------------------------------------------------------
(* The two programs, from their start.                                     *)

InitResolver ==
    /\ members_dict = <<>> /\ cursor = NoCursor /\ page = 1 /\ members = <<>>
    /\ used_basic = FALSE /\ saml_iterations = 0 /\ basic_iterations = 0

InitMain ==
    /\ exit_status = -1 /\ email_domain = NoneVal /\ records = <<>>
    /\ org_members = <<>> /\ idx = 1 /\ name = ""
    /\ results_file = NoFile /\ queries = <<>> /\ served = Idle /\ log = <<>>

InitNoExtract == response_data = NoPayload /\ extracted = NotExtracted

Init ==
    /\ prog \in {"handles", "org"}
    /\ argc \in 5..8
    /\ arg6 \in IF prog = "org" /\ argc >= 7 THEN {"", "corp.example"} ELSE {NoneVal}
    /\ input_file \in IF prog = "handles" THEN {"ok", "missing", "unreadable"}
                      ELSE {"ok"}
    /\ input_rows \in IF prog = "handles" /\ input_file = "ok"
                      THEN UNION {RowSeqs(n) : n \in 0..MaxRows} ELSE {<<>>}
    /\ remote = NoRemote
    /\ pc = "start"
    /\ InitResolver /\ InitMain /\ InitNoExtract

Next ==
    \/ StartHandles
    \/ SkipRow
    \/ \E r \in ContribAnswers : ProcessRow(r)
    \/ StartOrg
    \/ \E r \in SamlAnswers : SamlPage(r)
    \/ \E r \in BasicAnswers : BasicPage(r)
    \/ AfterResolve
    \/ \E d \in DetailsFor(idx) : ResolveMember(d)
    \/ \E r \in ContribAnswers : FetchMember(r)
    \/ FinishLoop

Spec == Init /\ [][Next]_vars

---------------------------------------------------------------------------
(* An extractor alone, on any payload of the bounded sets.                 *)

InitExtract ==
    /\ prog = "extract"
    /\ argc = 0 /\ arg6 = NoneVal /\ input_file = "ok" /\ input_rows = <<>>
    /\ remote = NoRemote
    /\ pc = "extract"
    /\ InitResolver /\ InitMain
    /\ response_data \in CutPayloads \cup CollectionPayloads
    /\ extracted = NotExtracted

\* extract_contribution_details(response_data), called directly.
ExtractDetails ==
    /\ prog = "extract" /\ extracted = NotExtracted
    /\ extracted' = [fn |-> "details",
                     res |-> extract_contribution_details(response_data)]
    /\ UNCHANGED <<inputVars, resolverVars, mainVars, response_data>>

\* extract_total_contributions(response_data), called directly.
ExtractTotal ==
    /\ prog = "extract" /\ extracted = NotExtracted
    /\ extracted' = [fn |-> "total",
                     res |-> extract_total_contributions(response_data)]
    /\ UNCHANGED <<inputVars, resolverVars, mainVars, response_data>>

NextExtract == ExtractDetails \/ ExtractTotal

SpecExtract == InitExtract /\ [][NextExtract]_vars

---------------------------------------------------------------------------
(* The resolver alone, against a remote that serves an organization of     *)
(* total_members members PerPage to a page.                                *)

\* idp: "none" (no identity provider configured), "empty" (a provider with
\* no linked identity) or "linked" (every member has a linked identity).
Remotes ==
    {[total_members |-> n, idp |-> k] :
        n \in 0..MaxOrgSize, k \in {"none", "empty", "linked"}}

\* Entries from + 1 .. to of the organization, as the identity-linked
\* listing and as the basic listing give them.
EdgesServed(from, to) ==
    [i \in 1..(to - from) |->
        [user |-> TRUE, login |-> HandleOf(from + i),
         name |-> DisplayName(HandleOf(from + i)),
         nameId |-> CompanyId(HandleOf(from + i))]]

RestServed(from, to) ==
    [i \in 1..(to - from) |-> [login |-> HandleOf(from + i), name |-> AbsentKey]]

Min(a, b) == IF a < b THEN a ELSE b

\* The page of the identity-linked listing after cursor cur.
ServeSaml(org, cur) ==
    LET linked == IF org.idp = "linked" THEN org.total_members ELSE 0
        from == IF cur = NoCursor THEN 0 ELSE cur
        to == Min(from + PerPage, linked)
    IN  IF org.idp = "none"
        THEN SamlAnswer("http", 200, "none", "null", <<>>, FALSE, NoCursor)
        ELSE SamlAnswer("http", 200, "none", "map", EdgesServed(from, to),
                        to < linked, to)

\* Page pg of the basic listing.
ServeBasic(org, pg) ==
    LET from == Min((pg - 1) * PerPage, org.total_members)
        to == Min(pg * PerPage, org.total_members)
    IN  BasicAnswer("http", 200, RestServed(from, to))

InitPaging ==
    /\ prog = "paging"
    /\ argc = 6 /\ arg6 = NoneVal /\ input_file = "ok" /\ input_rows = <<>>
    /\ remote \in Remotes
    /\ pc = "saml"
    /\ InitResolver /\ InitMain /\ InitNoExtract

NextPaging ==
    \/ SamlPage(ServeSaml(remote, cursor))
    \/ BasicPage(ServeBasic(remote, page))

SpecPaging == InitPaging /\ [][NextPaging]_vars

---------------------------------------------------------------------------
(* Claims about the Response Extractor (SpecExtract).                      *)

ZeroStats ==
    [total |-> 0, commits |-> 0, issues |-> 0, pull_requests |-> 0,
     pull_request_reviews |-> 0, repositories |-> 0, restricted |-> 0]

\* A key on the path to the counters is missing, null or no mapping.
PathCut(p) ==
    \/ p.top # "map" \/ p.data # "map" \/ p.user # "map"
    \/ p.cc # "map" \/ p.cal # "map"

\* A counter value that is there and is no number: null, a string that is
\* no number, an array, NaN or Infinity. (Integers, finite floats, strings of
\* digits and booleans are numbers to int().)
NonNumeric(x) == x.t \in {"null", "badstr", "list", "nan", "inf"}

SiblingsOf(p) ==
    <<p.commits, p.issues, p.pull_requests, p.pull_request_reviews,
      p.repositories, p.restricted>>

StatsAsSeq(st) ==
    <<st.commits, st.issues, st.pull_requests, st.pull_request_reviews,
      st.repositories, st.restricted>>

MalformedTotal(p) == PathCut(p) \/ p.total.t = "absent" \/ NonNumeric(p.total)
MalformedDetails(p) ==
    MalformedTotal(p) \/ \E i \in 1..6 : NonNumeric(SiblingsOf(p)[i])

\* C3: for every payload in which a key on the path to totalContributions is
\* missing, null or of the wrong type, or in which a counter value is
\* non-numeric, the extractor returns the all-zero record (all seven counters
\* 0, respectively total 0) and raises nothing to its caller.
C3_MalformedPayloadGivesZeroRecord ==
    /\ (extracted.fn = "details" /\ MalformedDetails(response_data))
          => /\ extracted.res.raised = "none"
             /\ extracted.res.stats = ZeroStats
    /\ (extracted.fn = "total" /\ MalformedTotal(response_data))
          => /\ extracted.res.raised = "none"
             /\ extracted.res.stats.total = 0

\* contributionsCollection is a mapping with an integer calendar total.
IntegerTotal(p) == ~PathCut(p) /\ p.total.t = "int"

\* The counter the claim expects for a sibling field: its own value, 0 when
\* the field is absent.
OwnValue(x, stat) ==
    IF x.t = "absent" THEN stat = 0 ELSE x = Leaf("int", stat)

\* C4 as stated: for every payload whose contributionsCollection is a mapping
\* with an integer calendar total, total is that figure and each of the six
\* other counters is its own sibling field when present and 0 when absent.
C4_TotalAndSiblingsAsStated ==
    (extracted.fn = "details" /\ IntegerTotal(response_data))
        => /\ extracted.res.raised = "none"
           /\ extracted.res.stats.total = response_data.total.v
           /\ \A i \in 1..6 : OwnValue(SiblingsOf(response_data)[i],
                                      StatsAsSeq(extracted.res.stats)[i])

\* C4 as amended: the same when every sibling field that is present is an
\* integer; when a sibling field is present and null the whole record is
\* zero, the total included.
C4_TotalIndependentOfSiblings ==
    (extracted.fn = "details" /\ IntegerTotal(response_data))
        => /\ extracted.res.raised = "none"
           /\ IF \E i \in 1..6 : SiblingsOf(response_data)[i].t = "null"
              THEN extracted.res.stats = ZeroStats
              ELSE /\ extracted.res.stats.total = response_data.total.v
                   /\ \A i \in 1..6 : OwnValue(SiblingsOf(response_data)[i],
                                              StatsAsSeq(extracted.res.stats)[i])

\* A payload with a total of MaxCount, one commit and no other sibling field
\* has been extracted: the total is not the sum of the others.
C4_Witness ==
    /\ extracted.fn = "details"
    /\ response_data = GoodPayload
    /\ extracted.res.stats = [ZeroStats EXCEPT !.total = MaxCount, !.commits = 1]

---------------------------------------------------------------------------
(* Claims about the Membership Resolver's pagination (SpecPaging).         *)

\* ceil(n / PerPage)
CeilPages(n) == (n + PerPage - 1) \div PerPage

Max(a, b) == IF a > b THEN a ELSE b

\* The first identity-linked page has no entry.
EmptyFirstPage ==
    remote.idp = "empty" \/ (remote.idp = "linked" /\ remote.total_members = 0)

\* C10 as stated: each pagination loop finishes within
\* ceil(total_members / 100) iterations, and a first identity-linked page
\* with no entry leads to the basic listing at once.
C10_WithinCeilIterations ==
    /\ saml_iterations <= CeilPages(remote.total_members)
    /\ basic_iterations <= CeilPages(remote.total_members)
    /\ (EmptyFirstPage /\ pc # "saml") => (used_basic /\ saml_iterations = 1)

\* C10 as amended: the identity-linked loop finishes within
\* max(1, ceil(total_members / 100)) iterations and the basic loop within
\* ceil(total_members / 100) + 1 (its last request is the empty page that ends
\* it); the resolver returns after exactly that many iterations; a first
\* identity-linked page with no entry leads to the basic listing after that
\* one request.
C10_PagingTerminates ==
    LET pages == CeilPages(remote.total_members)
    IN  /\ saml_iterations <= Max(1, pages)
        /\ basic_iterations <= pages + 1
        /\ pc \in {"saml", "basic", "resolved"}
        /\ pc = "resolved" =>
              IF used_basic
              THEN saml_iterations = 1 /\ basic_iterations = pages + 1
              ELSE saml_iterations = Max(1, pages) /\ basic_iterations = 0
        /\ (EmptyFirstPage /\ pc # "saml") => (used_basic /\ saml_iterations = 1)

\* The resolver has returned for an organization of more than two pages whose
\* first identity-linked page had no entry: one identity-linked request, then
\* the basic listing's pages and its empty last page.
C10_Witness ==
    /\ pc = "resolved" /\ remote.idp = "empty"
    /\ remote.total_members > 2 * PerPage
    /\ saml_iterations = 1
    /\ basic_iterations = CeilPages(remote.total_members) + 1
    /\ Len(org_members) = remote.total_members

---------------------------------------------------------------------------
(* Claims about the two programs' runs (Spec).                             *)

\* The handles of the users the loop has gone through, in order: the input
\* rows with enough columns before idx, respectively the members before idx.
Processed ==
    IF prog = "org"
    THEN [i \in 1..(idx - 1) |-> org_members[i].login]
    ELSE LET seen == SelectSeq(SubSeq(records, 1, idx - 1),
                               LAMBDA row : row.ncols >= 8)
         IN  [i \in 1..Len(seen) |-> seen[i].handle]

\* The users supplied to the loop.
Supplied == IF prog = "org" THEN org_members ELSE records

DataRows == Tail(results_file.lines)
LastRow == results_file.lines[Len(results_file.lines)]

\* C1: once the output file is open, the data rows are one per processed
\* user, in the order the users were supplied, and so are the contribution
\* queries, whatever each user's outcome was; the loop is left only after
\* the last supplied user; a row with fewer than 8 columns gives no output
\* row and no request.
C1_OneRowPerProcessedUser ==
    results_file.opens > 0 =>
        /\ [i \in 1..Len(DataRows) |-> DataRows[i][2]] = Processed
        /\ queries = Processed
        /\ pc \in {"loop", "fetch", "exited"}
        /\ pc = "exited" => idx = Len(Supplied) + 1

\* Handle-list mode has ended after two users: the first one's query failed
\* (a zero row), the second one's succeeded.
C1_Witness ==
    /\ prog = "handles" /\ pc = "exited"
    /\ results_file.lines =
         <<<<"Name", "GitHandle", "Email", "TotalContributions">>,
           <<"Name u1", "u1", "u1@mail.example", "0">>,
           <<"Name u2", "u2", "u2@mail.example", ToString(MaxCount)>>>>

\* The contribution query failed or brought no usable payload.
QueryFailed(r) == r.fetch # "ok" \/ r.body = "falsy" \/ ~r.hasData

\* The email the priority gives a member, `supplied` telling whether an
\* email_domain counts as supplied.
EmailByPriority(member, supplied) ==
    IF member.saml_name_id # "" THEN member.saml_name_id
    ELSE IF supplied THEN member.login \o "@" \o arg6
    ELSE ""

\* A seventh argument was given and is not the empty string.
DomainGiven == argc = 7 /\ arg6 # ""

\* C2: whenever a user's contribution query fails or brings no usable
\* payload, the row written for that user carries the user's name, handle and
\* email and has every counter 0; the queries issued are one per user gone
\* through (the failed query is not issued again), and the loop has moved on
\* to the next user.
C2_FailedQueryGivesZeroRowOnce ==
    /\ (served.step = "row" /\ QueryFailed(served.contrib)) =>
         /\ LastRow = <<records[idx - 1].name, served.handle,
                        records[idx - 1].email, "0">>
         /\ records[idx - 1].handle = served.handle
    /\ (served.step = "member" /\ QueryFailed(served.contrib)) =>
         /\ LastRow = <<Fmt(name), served.handle,
                        EmailByPriority(org_members[idx - 1], DomainGiven),
                        "0", "0", "0", "0", "0", "0", "0">>
         /\ org_members[idx - 1].login = served.handle
    /\ served.step \in {"row", "member"} =>
         /\ queries[Len(queries)] = served.handle
         /\ pc = "loop"
    /\ queries = Processed

\* Organization mode: the second member's query met a transport failure
\* after the first member's row was written.
C2_Witness ==
    /\ served.step = "member" /\ served.contrib.fetch = "transport"
    /\ idx = 3 /\ Len(results_file.lines) = 3
    /\ LastRow[2] = "u2" /\ LastRow[4] = "0"

TenColumns ==
    <<"Name", "GitHandle", "Email", "TotalContributions", "CommitContributions",
      "IssueContributions", "PullRequestContributions",
      "PullRequestReviewContributions", "RepositoryContributions",
      "RestrictedContributions">>

FourColumns == <<"Name", "GitHandle", "Email", "TotalContributions">>

EmailFollowsPriority(supplied) ==
    served.step = "member" =>
        /\ LastRow[3] = EmailByPriority(org_members[idx - 1], supplied)
        /\ (used_basic /\ ~supplied) => LastRow[3] = ""

\* C6 as stated: a non-empty saml_name_id is used verbatim whether or not an
\* email_domain was supplied; otherwise a supplied email_domain gives
\* '<handle>@<domain>'; otherwise the email is the empty string.
\* After the basic listing every row's email is empty unless email_domain
\* was supplied.
C6_EmailPriorityAsStated == EmailFollowsPriority(argc = 7)

\* C6 as amended: a non-empty saml_name_id is used verbatim whether or not
\* an email_domain was supplied; otherwise a supplied, non-empty
\* email_domain gives '<handle>@<domain>'; otherwise (no email_domain, or an
\* empty one) the email is the empty string. After the basic listing every
\* row's email is empty unless a non-empty email_domain was supplied.
C6_EmailPriorityNonEmptyDomain == EmailFollowsPriority(DomainGiven)

\* A member with a linked identity was written while a domain was supplied:
\* the email is the linked identity, not the generated address.
C6_Witness ==
    /\ served.step = "member" /\ argc = 7 /\ arg6 = "corp.example"
    /\ org_members[idx - 1].saml_name_id = "u1@sso.example"
    /\ LastRow[3] = "u1@sso.example"

\* The process has ended, the output file never opened and no
\* contribution query issued.
EndedWithoutOutput ==
    /\ pc = "exited"
    /\ results_file = [opens |-> 0, open |-> FALSE, lines |-> <<>>, flushed |-> 0]
    /\ queries = <<>>

\* C7: a wrong argument count (either mode), a missing or unreadable input
\* file (handle-list mode) and an organization that resolves to no member
\* (organization mode) end the process without the output file ever being
\* opened and without any contribution query, with exit status 1 for the
\* wrong argument count and for no member.
C7_InputErrorsWriteNothing ==
    /\ (prog = "handles" /\ argc # 6 /\ pc # "start") =>
          EndedWithoutOutput /\ exit_status = 1
    /\ (prog = "org" /\ (argc < 6 \/ argc > 7) /\ pc # "start") =>
          EndedWithoutOutput /\ exit_status = 1
    /\ (prog = "handles" /\ input_file # "ok" /\ pc # "start") =>
          EndedWithoutOutput
    /\ (prog = "org" /\ org_members = <<>>
        /\ pc \notin {"start", "saml", "basic", "resolved"}) =>
          EndedWithoutOutput /\ exit_status = 1
    /\ results_file.opens = 0 => queries = <<>>

\* Organization mode with a right argument count has ended on an
\* organization both listings found empty.
C7_Witness ==
    /\ prog = "org" /\ argc = 7 /\ used_basic
    /\ org_members = <<>> /\ EndedWithoutOutput /\ exit_status = 1

\* The user's payload fails extraction.
ExtractionFailed(r) ==
    /\ r.fetch = "ok" /\ r.hasData
    /\ IF prog = "org" THEN MalformedDetails(r.payload) ELSE MalformedTotal(r.payload)

\* C8: in both run modes, whenever a user's decoded response carries an
\* 'errors' list, or the user's fetch fails, or the user's payload fails
\* extraction, a line naming that user's handle is printed before the next
\* user is started; with 'errors' next to 'data' the extraction's result is
\* what is written.
C8_RecoveredErrorNamesHandle ==
    served.step \in {"row", "member"} =>
        /\ (\/ served.contrib.hasErrors
            \/ served.contrib.fetch # "ok"
            \/ ExtractionFailed(served.contrib))
              => \E i \in 1..Len(log) : log[i].who = served.handle
        /\ (served.contrib.hasErrors /\ served.contrib.payload = GoodPayload) =>
              LastRow[4] = ToString(MaxCount)

\* C9: in organization mode the name field of every row is a non-empty
\* resolved name or exactly the handle, never a None placeholder, whatever
\* the listing and the user-details lookup gave.
C9_NameIsDisplayNameOrHandle ==
    (prog = "org" /\ results_file.opens > 0) =>
        \A i \in 1..Len(DataRows) :
            /\ DataRows[i][1] \notin {"", "None"}
            /\ DataRows[i][1] \in {DataRows[i][2], "Name " \o DataRows[i][2]}

---------------------------------------------------------------------------
(* Claims about the Membership Resolver's hand-over and its result (Spec). *)

\* One of the three conditions holds of the answer r in the current state:
\* an error that references the identity provider, no identity provider
\* configured, or a first page without entries.
FallbackDue(r) ==
    /\ r.kind = "http" /\ r.status = 200
    /\ \/ r.errors = "saml"
       \/ r.provider # "map"
       \/ (r.edges = <<>> /\ page = 1)

\* C11: an iteration of the identity-linked listing hands over to the basic
\* listing exactly when one of the three conditions holds of its answer; on
\* any other answer there is no hand-over, and when the loop then ends the
\* resolver returns the members accumulated from the identity-linked pages.
C11_FallbackExactlyWhenDue ==
    [][\A r \in SamlAnswers :
          SamlPage(r) =>
              /\ (pc' = "basic") <=> FallbackDue(r)
              /\ (pc' = "resolved") => (org_members' = members_dict' /\ ~used_basic')
      ]_vars

\* No two entries of the list ms have the same handle.
EachHandleOnce(ms) ==
    \A i, j \in 1..Len(ms) : ms[i].login = ms[j].login => i = j

\* After a page of the identity-linked listing, every handle the page names
\* has one entry in the dict `after`, holding what the page's last edge for
\* that handle says.
LastWriteWins(edges, after) ==
    \A j \in 1..Len(edges) :
        (\A k \in (j + 1)..Len(edges) : edges[k].login # edges[j].login) =>
            \E i \in 1..Len(after) :
                /\ after[i] = MemberOfEdge(edges[j])
                /\ \A h \in 1..Len(after) : after[h].login = edges[j].login => h = i

\* C12: the member list handed to the orchestrator has each handle at most
\* once, whichever path produced it and whatever pages the remote returned,
\* so no handle has two output rows; in the identity-linked path a handle
\* named again keeps the entry of the latest page.
C12_MemberListHasEachHandleOnce ==
    [][/\ EachHandleOnce(org_members')
       /\ \A i, j \in 2..Len(results_file'.lines) :
             results_file'.lines[i][2] = results_file'.lines[j][2] => i = j
       /\ \A r \in SamlAnswers :
             (SamlPage(r) /\ pc' # "basic" /\ r.kind = "http" /\ r.status = 200)
                 => LastWriteWins(r.edges, members_dict')
      ]_vars

---------------------------------------------------------------------------
(* Claims about the Report Writer's flushes (Spec).                        *)

\* What an interruption at this point leaves in the output file: the lines
\* flushed so far.
Durable == SubSeq(results_file.lines, 1, results_file.flushed)

\* The lines are the header the run wrote followed by one complete row for
\* each user whose processing has finished, in order.
HeaderThenFinishedRows(lines) ==
    /\ lines # <<>>
    /\ Head(lines) = IF prog = "org" THEN TenColumns ELSE FourColumns
    /\ [i \in 1..(Len(lines) - 1) |-> lines[i + 1][2]] = Processed
    /\ \A i \in 2..Len(lines) : Len(lines[i]) = Len(Head(lines))

\* C13 as stated: at every point of the run after the output file is opened,
\* the flushed content of the file is the header followed by the complete
\* rows of exactly the users whose processing has finished, in order.
C13_FlushedIsHeaderThenFinishedRows ==
    results_file.opens > 0 => HeaderThenFinishedRows(Durable)

\* C13 as amended: after the output file is opened its flushed content is
\* empty until the first row is flushed or the file is closed (the header is
\* written without a flush), and no user has finished while it is; from then
\* on it is the header followed by the complete rows of exactly the users
\* whose processing has finished, in order, each row being flushed before
\* the next user's request.
C13_FlushedRowsOfFinishedUsers ==
    results_file.opens > 0 =>
        IF Durable = <<>>
        THEN results_file.open /\ Processed = <<>>
        ELSE /\ HeaderThenFinishedRows(Durable)
             /\ Durable = results_file.lines

\* Organization mode is about to issue the second member's request: the
\* header and the first member's row are flushed.
C13_Witness ==
    /\ prog = "org" /\ pc = "fetch" /\ idx = 2
    /\ results_file.open /\ Len(Durable) = 2
    /\ Durable[2][2] = org_members[1].login

====
